---- MODULE Spec2Model ----
(***************************************************************************)
(* NoteTake: the client-side synchronisation core of js/app.js and         *)
(* js/ui.js (src/unnamed/part_000, src/unnamed/part_001).                  *)
(*                                                                         *)
(* State: the module-level variables of app.js (currentUser,               *)
(* currentNoteId, noteToDeleteId, notesData, searchTerm, autosaveTimeout), *)
(* UI.isEditMode, the parts of the DOM the handlers read back (visible     *)
(* view, the two editor inputs, the save-status label, the rendered note   *)
(* lists), the browser's timer table, the live Firestore listeners and the *)
(* remote calls in flight.  Every handler is one action; the continuation  *)
(* of every await is a further action, so that acknowledgements interleave *)
(* with events as the event loop allows.                                   *)
(*                                                                         *)
(* Text is a sequence of characters.  A note's updatedAt is not a field    *)
(* of the model: a snapshot is delivered already ordered by it.            *)
(***************************************************************************)
EXTENDS Integers, Sequences, FiniteSets, TLC

\* ---------------------------------------------------------------- bounds
MaxNotes == 2
MaxSubs == 2
MaxTimers == 2
MaxInFlight == 1

\* --------------------------------------------------------------- domains
NoUser == "null"
Users == {"u1", "u2"}
NoNote == "null"
NoteIds == {"n1", "n2", "n3"}
NoHandle == 0
Handles == 1..MaxTimers

\* Texts a remote document may hold and texts the user may type.
StoredTexts == {<< >>, <<"m">>}
TypedTexts == {<<"x">>, <<"Y">>}
SearchTerms == {<< >>, <<"m">>, <<"X">>}

\* Documents that exist before the page is loaded: id -> owner.
InitialOwner == [i \in NoteIds |-> IF i \in {"n1", "n2"} THEN "u1" ELSE NoUser]

VARIABLES
    currentUser,      \* app.js: let currentUser
    currentNoteId,    \* app.js: let currentNoteId
    noteToDeleteId,   \* app.js: let noteToDeleteId
    notesData,        \* app.js: let notesData (the note cache)
    searchTerm,       \* app.js: let searchTerm
    autosaveTimeout,  \* app.js: let autosaveTimeout (handle of the last timer)
    isEditMode,       \* ui.js: UI.isEditMode
    view,             \* which of UI.views is not hidden
    edTitle,          \* value of #note-title
    edContent,        \* value of #note-content
    saveStatus,       \* what #save-status shows
    gridIds,          \* ids of the cards in #notes-grid
    sidebarIds,       \* ids of the rows in #sidebar-notes-list
    modalOpen,        \* #modal-delete is not hidden
    armed,            \* handles of the timers that are set and have not fired
    subs,             \* live onSnapshot listeners: owner -> how many
    owner,            \* remote store: id -> owner of the document that got the id
    authReady,        \* the auth observer has called back at least once
    pendingCreates,   \* addDoc calls awaiting their acknowledgement (uid each)
    pendingDeletes,   \* deleteDoc calls awaiting their acknowledgement
    pendingUpdates,   \* updateDoc calls awaiting their acknowledgement
    logoutPhase,      \* position inside app.logout
    updateLog,        \* history: the timers that issued an updateDoc call, in order
    timerHist,        \* history: handle -> what was true when the timer was set
    previewOf,        \* the text last rendered into #note-preview
    fades,            \* ui.js: pending 2000 ms timers that fade #save-status out
    edNote,           \* history: the note whose fields were last loaded into the inputs
    gemini,           \* gemini.js: the generateContent call, its position and outcome
    lastOp            \* history: the handler that ran last, with its input

vars == << currentUser, currentNoteId, noteToDeleteId, notesData, searchTerm,
           autosaveTimeout, isEditMode, view, edTitle, edContent, saveStatus,
           gridIds, sidebarIds, modalOpen, armed, subs, owner, authReady,
           pendingCreates, pendingDeletes, pendingUpdates, logoutPhase,
           updateLog, timerHist, previewOf, fades, edNote, gemini, lastOp >>

\* ---------------------------------------------------------------- helpers
Range(s) == {s[i] : i \in 1..Len(s)}

Ids(notes) == [i \in 1..Len(notes) |-> notes[i].id]

\* Array.prototype.find on the cache: the first note with the id, or none.
FindNote(notes, noteId) ==
    LET hits == {i \in 1..Len(notes) : notes[i].id = noteId}
    IN  IF hits = {} THEN << >>
        ELSE <<notes[CHOOSE i \in hits : \A j \in hits : i <= j]>>

\* String.prototype.toLowerCase, character by character.
LowerChar(c) ==
    CASE c = "X" -> "x"
      [] c = "Y" -> "y"
      [] c = "M" -> "m"
      [] c = "T" -> "t"
      [] OTHER -> c

toLowerCase(t) == [i \in 1..Len(t) |-> LowerChar(t[i])]

\* String.prototype.includes: needle occurs in hay as a contiguous run.
includes(hay, needle) ==
    \E k \in 0..Len(hay) :
        /\ k + Len(needle) <= Len(hay)
        /\ SubSeq(hay, k + 1, k + Len(needle)) = needle

\* As NoteMatches, but comparing the texts as they are written.
NoteMatchesExact(note, rawTerm) ==
    includes(note.title, rawTerm) \/ includes(note.content, rawTerm)

\* The predicate of notesData.filter in renderDashboard.
NoteMatches(note, rawTerm) ==
    LET term == toLowerCase(rawTerm)
        title == toLowerCase(note.title)
        content == toLowerCase(note.content)
    IN  includes(title, term) \/ includes(content, term)

\* Array.prototype.filter with that predicate: the matching notes, in order.
RECURSIVE filteredNotes(_, _)
filteredNotes(notes, rawTerm) ==
    IF notes = << >> THEN << >>
    ELSE IF NoteMatches(Head(notes), rawTerm)
         THEN <<Head(notes)>> \o filteredNotes(Tail(notes), rawTerm)
         ELSE filteredNotes(Tail(notes), rawTerm)

\* renderDashboard: the cards left in #notes-grid.
renderDashboard(notes, rawTerm) == Ids(filteredNotes(notes, rawTerm))

\* renderSidebar: the rows left in #sidebar-notes-list.
renderSidebar(notes) == Ids(notes)

\* ----------------------------------------------------------- remote store
\* The field values a stored document may have.
StoredFields ==
    { [title |-> << >>, content |-> << >>],
      [title |-> <<"T">>, content |-> <<"m">>] }

\* The documents the collection users/{u}/notes may hold: doc.id and doc.data().
DocsOf(u) ==
    { [id |-> i, data |-> [title |-> f.title, content |-> f.content, userId |-> u]] :
        i \in {j \in NoteIds : owner[j] = u}, f \in StoredFields }

\* A snapshot of that collection: its current documents, each id once, in
\* the order of the query (updatedAt descending).
Snapshots(u) ==
    { d \in UNION { [1..n -> DocsOf(u)] : n \in 0..MaxNotes } :
        \A i, j \in 1..Len(d) : d[i].id = d[j].id => i = j }

\* snapshot.docs.map(doc => ({ id: doc.id, ...doc.data() }))
MapDocs(docs) ==
    [i \in 1..Len(docs) |->
        [id |-> docs[i].id, title |-> docs[i].data.title,
         content |-> docs[i].data.content, userId |-> docs[i].data.userId]]

TotalSubs == subs["u1"] + subs["u2"]

\* History of a timer handle.  While the timer is armed: the note, identity
\* and editor texts at the handleInput call that set it.  For good: the handle
\* that call cleared while it was still armed (after), and whether the editor
\* session went on without an open-note, return-to-dashboard or identity
\* event from that call until the timer fired or was cleared (steady), and
\* whether currentNoteId and currentUser kept the values they had at that
\* call until then (same).
NoTimer ==
    [state |-> "unset", note |-> NoNote, user |-> NoUser, title |-> << >>,
     content |-> << >>, after |-> NoHandle, steady |-> FALSE, same |-> FALSE]

\* What is kept of a timer's history once it has fired or was cleared.
Ended(t, how) ==
    [NoTimer EXCEPT !.state = how, !.after = t.after, !.steady = t.steady,
                    !.same = t.same]

\* An open-note, return-to-dashboard or identity event: the armed timers
\* are no longer steady, and no longer on the same note and identity when
\* the event changes currentNoteId or currentUser.
Interrupted(hist) ==
    [h \in Handles |->
        IF hist[h].state = "armed"
        THEN [hist[h] EXCEPT
                 !.steady = FALSE,
                 !.same = @ /\ currentNoteId' = currentNoteId
                            /\ currentUser' = currentUser]
        ELSE hist[h]]

\* ------------------------------------------------------------ generation
\* const modelsToTry in GeminiService.generateContent
modelsToTry == << "gemini-2.5-flash", "gemini-2.5-flash-001" >>

\* What response.text() may return and the messages a failed call may carry.
GeminiTexts == { "summary", "outline" }
GeminiErrors == { "quota exceeded", "model not found" }

\* The message of the TypeError `this.genAI.getGenerativeModel` throws when
\* this.genAI is null.
NullClientError == "Cannot read properties of null (reading 'getGenerativeModel')"

\* The generateContent calls made since the page was loaded.
MaxCalls == 2

\* GeminiService before any call.  client: this.genAI is set (the field is
\* shared by every call); asked: the models asked so far, by any call, in
\* the order they were asked; runs: one record per generateContent call.
\* In a run, phase: where the call is; at: the await it is suspended at
\* (model.generateContent or result.response); idx: the model awaited;
\* lastError: let lastError; calls: the models this call asked; answers:
\* what each of them answered; caught: the messages of the errors its catch
\* received, one per iteration; value: what the call returned or the
\* message of what it threw.
GeminiIdle ==
    [client |-> FALSE, asked |-> << >>, runs |-> << >>]

\* -------------------------------------------------------------------- Init
Init ==
    /\ currentUser = NoUser
    /\ currentNoteId = NoNote
    /\ noteToDeleteId = NoNote
    /\ notesData = << >>
    /\ searchTerm = << >>
    /\ autosaveTimeout = NoHandle
    /\ isEditMode = TRUE
    /\ view = "login"
    /\ edTitle = << >>
    /\ edContent = << >>
    /\ saveStatus = "hidden"
    /\ gridIds = << >>
    /\ sidebarIds = << >>
    /\ modalOpen = FALSE
    /\ armed = {}
    /\ subs = [u \in Users |-> 0]
    /\ owner = InitialOwner
    /\ authReady = FALSE
    /\ pendingCreates = << >>
    /\ pendingDeletes = << >>
    /\ pendingUpdates = << >>
    /\ logoutPhase = "idle"
    /\ updateLog = << >>
    /\ timerHist = [h \in Handles |-> NoTimer]
    /\ previewOf = << >>
    /\ fades = 0
    /\ edNote = NoNote
    /\ gemini = GeminiIdle
    /\ lastOp = [op |-> "load", arg |-> NoNote]

\* ------------------------------------------------- session and subscription
\* As onSnapshotNext, but patching the cache instead of replacing it.
onSnapshotMerge(docs) ==
    /\ notesData' = notesData \o MapDocs(docs)
    /\ gridIds' = renderDashboard(notesData', searchTerm)
    /\ sidebarIds' = renderSidebar(notesData')

\* The callback given to onSnapshot: replace the cache, re-render both lists.
onSnapshotNext(docs) ==
    /\ notesData' = MapDocs(docs)
    /\ gridIds' = renderDashboard(notesData', searchTerm)
    /\ sidebarIds' = renderSidebar(notesData')

\* The callback given to onAuthStateChanged.  The observer calls back once
\* when it is registered and then whenever the identity changes.  The
\* unsubscribe function onSnapshot returns is dropped, so a listener lives
\* until the SDK ends it with an error or the page is reloaded.
onAuthStateChanged(user) ==
    /\ ~authReady \/ user # currentUser
    /\ user # NoUser => TotalSubs < MaxSubs
    /\ authReady' = TRUE
    /\ currentUser' = user
    /\ IF user # NoUser
       THEN /\ view' = "dashboard"
            /\ subs' = [subs EXCEPT ![user] = @ + 1]
            /\ UNCHANGED notesData
       ELSE /\ view' = "login"
            /\ notesData' = << >>
            /\ UNCHANGED subs
    /\ UNCHANGED << edNote, gemini, fades >>
    /\ lastOp' = [op |-> "auth", arg |-> user]
    /\ UNCHANGED << currentNoteId, noteToDeleteId, searchTerm, autosaveTimeout,
                    isEditMode, edTitle, edContent, saveStatus, gridIds,
                    sidebarIds, modalOpen, armed, owner, pendingCreates,
                    pendingDeletes, pendingUpdates, logoutPhase, updateLog,
                    previewOf >>
    /\ timerHist' = Interrupted(timerHist)

\* As SnapshotDelivered, but also reloading the inputs of the editor from
\* the open note's document.
SnapshotDeliveredRefreshing(u, docs) ==
    LET note == FindNote(MapDocs(docs), currentNoteId)
    IN  /\ subs[u] > 0
        /\ docs \in Snapshots(u)
        /\ onSnapshotNext(docs)
        /\ edTitle' = IF note = << >> THEN edTitle ELSE note[1].title
        /\ edContent' = IF note = << >> THEN edContent ELSE note[1].content
        /\ UNCHANGED << edNote, gemini, fades >>
        /\ lastOp' = [op |-> "snapshot", arg |-> docs]
        /\ UNCHANGED << currentUser, currentNoteId, noteToDeleteId, searchTerm,
                        autosaveTimeout, isEditMode, view, saveStatus,
                        modalOpen, armed, subs, owner, authReady,
                        pendingCreates, pendingDeletes, pendingUpdates,
                        logoutPhase, updateLog, timerHist, previewOf >>

\* A live listener on users/{u}/notes delivers a snapshot.
SnapshotDelivered(u, docs) ==
    /\ subs[u] > 0
    /\ docs \in Snapshots(u)
    /\ onSnapshotNext(docs)
    /\ UNCHANGED << edNote, gemini, fades >>
    /\ lastOp' = [op |-> "snapshot", arg |-> docs]
    /\ UNCHANGED << currentUser, currentNoteId, noteToDeleteId, searchTerm,
                    autosaveTimeout, isEditMode, view, edTitle, edContent,
                    saveStatus, modalOpen, armed, subs, owner, authReady,
                    pendingCreates, pendingDeletes, pendingUpdates,
                    logoutPhase, updateLog, timerHist, previewOf >>

\* The error callback given to onSnapshot: console.error and nothing else.
\* The SDK delivers nothing more to a listener after its error.
onSnapshotError(u) ==
    /\ subs[u] > 0
    /\ subs' = [subs EXCEPT ![u] = @ - 1]
    /\ UNCHANGED << edNote, gemini, fades >>
    /\ lastOp' = [op |-> "listenError", arg |-> u]
    /\ UNCHANGED << currentUser, currentNoteId, noteToDeleteId, notesData,
                    searchTerm, autosaveTimeout, isEditMode, view, edTitle,
                    edContent, saveStatus, gridIds, sidebarIds, modalOpen,
                    armed, owner, authReady, pendingCreates, pendingDeletes,
                    pendingUpdates, logoutPhase, updateLog, timerHist,
                    previewOf >>

\* ------------------------------------------------------------- navigation
\* app.showDashboard
showDashboard ==
    /\ currentNoteId' = NoNote
    /\ view' = "dashboard"

\* As openNote, but without the check that the note is in the cache.
openNoteUnchecked(noteId) ==
    LET note == FindNote(notesData, noteId)
    IN  /\ currentNoteId' = noteId
        /\ edTitle' = IF note = << >> THEN edTitle ELSE note[1].title
        /\ edContent' = IF note = << >> THEN edContent ELSE note[1].content
        /\ edNote' = IF note = << >> THEN edNote ELSE noteId
        /\ isEditMode' = TRUE
        /\ view' = "editor"
        /\ sidebarIds' = renderSidebar(notesData)

\* As openNote, but leaving the editor in the mode it is in.
openNoteKeepMode(noteId) ==
    LET note == FindNote(notesData, noteId)
    IN  IF note = << >>
        THEN /\ showDashboard
             /\ UNCHANGED << edTitle, edContent, isEditMode, sidebarIds,
                             edNote >>
        ELSE /\ currentNoteId' = noteId
             /\ edNote' = noteId
             /\ edTitle' = note[1].title
             /\ edContent' = note[1].content
             /\ UNCHANGED isEditMode
             /\ view' = "editor"
             /\ sidebarIds' = renderSidebar(notesData)

\* app.openNote: the assignments to the state it touches.
openNote(noteId) ==
    LET note == FindNote(notesData, noteId)
    IN  IF note = << >>
        THEN /\ showDashboard
             /\ UNCHANGED << edTitle, edContent, isEditMode, sidebarIds,
                             edNote >>
        ELSE /\ currentNoteId' = noteId
             /\ edNote' = noteId
             /\ edTitle' = note[1].title
             /\ edContent' = note[1].content
             /\ isEditMode' = TRUE
             /\ view' = "editor"
             /\ sidebarIds' = renderSidebar(notesData)

\* The ids the user can click: the rendered cards or sidebar rows of the
\* view that is shown.
Clickable ==
    IF view = "dashboard" THEN Range(gridIds)
    ELSE IF view = "editor" THEN Range(sidebarIds)
    ELSE {}

\* A click on a card or a sidebar row: onclick = () => app.openNote(note.id)
OpenNoteClicked(noteId) ==
    /\ noteId \in Clickable
    /\ openNote(noteId)
    /\ UNCHANGED << gemini, fades >>
    /\ lastOp' = [op |-> "openNote",
                  arg |-> [id |-> noteId, from |-> currentNoteId,
                           edit |-> isEditMode]]
    /\ UNCHANGED << currentUser, noteToDeleteId, notesData, searchTerm,
                    autosaveTimeout, saveStatus, gridIds, modalOpen, armed,
                    subs, owner, authReady, pendingCreates, pendingDeletes,
                    pendingUpdates, logoutPhase, updateLog, previewOf >>
    /\ timerHist' = Interrupted(timerHist)

\* The editor's back control: app.showDashboard
BackToDashboard ==
    /\ view = "editor"
    /\ showDashboard
    /\ UNCHANGED << edNote, gemini, fades >>
    /\ lastOp' = [op |-> "showDashboard", arg |-> "back"]
    /\ UNCHANGED << currentUser, noteToDeleteId, notesData, searchTerm,
                    autosaveTimeout, isEditMode, edTitle, edContent,
                    saveStatus, gridIds, sidebarIds, modalOpen, armed, subs,
                    owner, authReady, pendingCreates, pendingDeletes,
                    pendingUpdates, logoutPhase, updateLog, previewOf >>
    /\ timerHist' = Interrupted(timerHist)

\* keydown Ctrl+K: show the dashboard if it is hidden, then focus the search.
KeyCtrlK ==
    /\ IF view # "dashboard"
       THEN showDashboard
       ELSE UNCHANGED << currentNoteId, view >>
    /\ UNCHANGED << edNote, gemini, fades >>
    /\ lastOp' = [op |-> "ctrlK", arg |-> view]
    /\ UNCHANGED << currentUser, noteToDeleteId, notesData, searchTerm,
                    autosaveTimeout, isEditMode, edTitle, edContent,
                    saveStatus, gridIds, sidebarIds, modalOpen, armed, subs,
                    owner, authReady, pendingCreates, pendingDeletes,
                    pendingUpdates, logoutPhase, updateLog, previewOf >>
    /\ timerHist' = IF view # "dashboard" THEN Interrupted(timerHist) ELSE timerHist

\* ------------------------------------------------------------------ delete
\* app.requestDelete, from the delete button of a card or a sidebar row.
requestDelete(id) ==
    /\ id \in Clickable
    /\ noteToDeleteId' = id
    /\ modalOpen' = TRUE
    /\ UNCHANGED << edNote, gemini, fades >>
    /\ lastOp' = [op |-> "requestDelete", arg |-> id]
    /\ UNCHANGED << currentUser, currentNoteId, notesData, searchTerm,
                    autosaveTimeout, isEditMode, view, edTitle, edContent,
                    saveStatus, gridIds, sidebarIds, armed, subs, owner,
                    authReady, pendingCreates, pendingDeletes, pendingUpdates,
                    logoutPhase, updateLog, timerHist, previewOf >>

\* app.closeModal: the assignments to the state it touches.
closeModal ==
    /\ noteToDeleteId' = NoNote
    /\ modalOpen' = FALSE

\* The modal's cancel control: app.closeModal
CancelDelete ==
    /\ modalOpen
    /\ closeModal
    /\ UNCHANGED << edNote, gemini, fades >>
    /\ lastOp' = [op |-> "closeModal", arg |-> noteToDeleteId]
    /\ UNCHANGED << currentUser, currentNoteId, notesData, searchTerm,
                    autosaveTimeout, isEditMode, view, edTitle, edContent,
                    saveStatus, gridIds, sidebarIds, armed, subs, owner,
                    authReady, pendingCreates, pendingDeletes, pendingUpdates,
                    logoutPhase, updateLog, timerHist, previewOf >>

\* app.confirmDelete up to its await: return early, or issue deleteDoc.
confirmDelete ==
    /\ modalOpen
    /\ IF noteToDeleteId = NoNote \/ currentUser = NoUser
       THEN /\ UNCHANGED pendingDeletes
            /\ UNCHANGED << edNote, gemini, fades >>
            /\ lastOp' = [op |-> "confirmDelete", arg |-> NoNote]
       ELSE /\ Len(pendingDeletes) < MaxInFlight
            /\ pendingDeletes' =
                   Append(pendingDeletes, [uid |-> currentUser, id |-> noteToDeleteId])
            /\ UNCHANGED << edNote, gemini, fades >>
            /\ lastOp' = [op |-> "confirmDelete", arg |-> noteToDeleteId]
    /\ UNCHANGED << currentUser, currentNoteId, noteToDeleteId, notesData,
                    searchTerm, autosaveTimeout, isEditMode, view, edTitle,
                    edContent, saveStatus, gridIds, sidebarIds, modalOpen,
                    armed, subs, owner, authReady, pendingCreates,
                    pendingUpdates, logoutPhase, updateLog, timerHist,
                    previewOf >>

\* app.confirmDelete after its await: deleteDoc resolved.  The comparison
\* reads currentNoteId and noteToDeleteId as they are now.
confirmDeleteResolved ==
    /\ pendingDeletes # << >>
    /\ pendingDeletes' = Tail(pendingDeletes)
    /\ IF currentNoteId = noteToDeleteId
       THEN showDashboard
       ELSE UNCHANGED << currentNoteId, view >>
    /\ closeModal
    /\ UNCHANGED << edNote, gemini, fades >>
    /\ lastOp' = [op |-> "deleteAck",
                  arg |-> [id |-> Head(pendingDeletes).id, open |-> currentNoteId,
                           pending |-> noteToDeleteId]]
    /\ UNCHANGED << currentUser, notesData, searchTerm, autosaveTimeout,
                    isEditMode, edTitle, edContent, saveStatus, gridIds,
                    sidebarIds, armed, subs, owner, authReady, pendingCreates,
                    pendingUpdates, logoutPhase, updateLog, previewOf >>
    /\ timerHist' = IF currentNoteId = noteToDeleteId THEN Interrupted(timerHist) ELSE timerHist

\* app.confirmDelete after its await: deleteDoc rejected; console.error only.
confirmDeleteRejected ==
    /\ pendingDeletes # << >>
    /\ pendingDeletes' = Tail(pendingDeletes)
    /\ UNCHANGED << edNote, gemini, fades >>
    /\ lastOp' = [op |-> "deleteFail", arg |-> Head(pendingDeletes).id]
    /\ UNCHANGED << currentUser, currentNoteId, noteToDeleteId, notesData,
                    searchTerm, autosaveTimeout, isEditMode, view, edTitle,
                    edContent, saveStatus, gridIds, sidebarIds, modalOpen,
                    armed, subs, owner, authReady, pendingCreates,
                    pendingUpdates, logoutPhase, updateLog, timerHist,
                    previewOf >>

\* ------------------------------------------------------------------ create
\* app.createNewNote up to its await.  addDoc picks the id of the new
\* document when it is called; the remote store never hands out an id twice.
createNewNote ==
    /\ view \in {"dashboard", "editor"}
    /\ IF currentUser = NoUser
       THEN /\ UNCHANGED << owner, pendingCreates >>
            /\ UNCHANGED << edNote, gemini, fades >>
            /\ lastOp' = [op |-> "createNewNote", arg |-> NoNote]
       ELSE \E id \in NoteIds :
            /\ owner[id] = NoUser
            /\ Len(pendingCreates) < MaxInFlight
            /\ owner' = [owner EXCEPT ![id] = currentUser]
            /\ pendingCreates' = Append(pendingCreates, [uid |-> currentUser, id |-> id])
            /\ UNCHANGED << edNote, gemini, fades >>
            /\ lastOp' = [op |-> "createNewNote", arg |-> id]
    /\ UNCHANGED << currentUser, currentNoteId, noteToDeleteId, notesData,
                    searchTerm, autosaveTimeout, isEditMode, view, edTitle,
                    edContent, saveStatus, gridIds, sidebarIds, modalOpen,
                    armed, subs, authReady, pendingDeletes, pendingUpdates,
                    logoutPhase, updateLog, timerHist, previewOf >>

\* app.createNewNote after its await: addDoc resolved; app.openNote(docRef.id)
createNewNoteResolved ==
    /\ pendingCreates # << >>
    /\ pendingCreates' = Tail(pendingCreates)
    /\ openNote(Head(pendingCreates).id)
    /\ UNCHANGED << gemini, fades >>
    /\ lastOp' = [op |-> "createAck",
                  arg |-> [id |-> Head(pendingCreates).id, from |-> currentNoteId,
                           edit |-> isEditMode]]
    /\ UNCHANGED << currentUser, noteToDeleteId, notesData, searchTerm,
                    autosaveTimeout, saveStatus, gridIds, modalOpen, armed,
                    subs, owner, authReady, pendingDeletes, pendingUpdates,
                    logoutPhase, updateLog, previewOf >>
    /\ timerHist' = Interrupted(timerHist)

\* app.createNewNote after its await: addDoc rejected; an alert only.
createNewNoteRejected ==
    /\ pendingCreates # << >>
    /\ pendingCreates' = Tail(pendingCreates)
    /\ UNCHANGED << edNote, gemini, fades >>
    /\ lastOp' = [op |-> "createFail", arg |-> Head(pendingCreates).id]
    /\ UNCHANGED << currentUser, currentNoteId, noteToDeleteId, notesData,
                    searchTerm, autosaveTimeout, isEditMode, view, edTitle,
                    edContent, saveStatus, gridIds, sidebarIds, modalOpen,
                    armed, subs, owner, authReady, pendingDeletes,
                    pendingUpdates, logoutPhase, updateLog, timerHist,
                    previewOf >>

\* ---------------------------------------------------------------- autosave
\* As handleInput, but without the clearTimeout.
handleInputNoClear ==
    LET h == autosaveTimeout + 1
    IN  /\ h \in Handles
        /\ saveStatus' = "saving"
        /\ armed' = armed \cup {h}
        /\ autosaveTimeout' = h
        /\ timerHist' =
               [g \in Handles |->
                   IF g = h
                   THEN [state |-> "armed", note |-> currentNoteId,
                         user |-> currentUser, title |-> edTitle',
                         content |-> edContent',
                         after |-> IF autosaveTimeout \in armed
                                   THEN autosaveTimeout ELSE NoHandle,
                         steady |-> TRUE, same |-> TRUE]
                   ELSE timerHist[g]]

\* app.handleInput: show "saving", clear the timer autosaveTimeout names, set
\* a new one.  A handle is never reused; autosaveTimeout keeps the last one.
handleInput ==
    LET h == autosaveTimeout + 1
    IN  /\ h \in Handles
        /\ saveStatus' = "saving"
        /\ armed' = (armed \ {autosaveTimeout}) \cup {h}
        /\ autosaveTimeout' = h
        /\ timerHist' =
               [g \in Handles |->
                   IF g = h
                   THEN [state |-> "armed", note |-> currentNoteId,
                         user |-> currentUser, title |-> edTitle',
                         content |-> edContent',
                         after |-> IF autosaveTimeout \in armed
                                   THEN autosaveTimeout ELSE NoHandle,
                         steady |-> TRUE, same |-> TRUE]
                   ELSE IF g = autosaveTimeout /\ g \in armed
                        THEN Ended(timerHist[g], "cleared")
                        ELSE timerHist[g]]

\* An input event on #note-title.
TitleInput(text) ==
    /\ view = "editor"
    /\ text # edTitle
    /\ edTitle' = text
    /\ UNCHANGED edContent
    /\ handleInput
    /\ UNCHANGED << edNote, gemini, fades >>
    /\ lastOp' = [op |-> "input", arg |-> "title"]
    /\ UNCHANGED << currentUser, currentNoteId, noteToDeleteId, notesData,
                    searchTerm, isEditMode, view, gridIds, sidebarIds,
                    modalOpen, subs, owner, authReady, pendingCreates,
                    pendingDeletes, pendingUpdates, logoutPhase, updateLog,
                    previewOf >>

\* An input event on #note-content, which is hidden in preview mode.
ContentInput(text) ==
    /\ view = "editor"
    /\ isEditMode
    /\ text # edContent
    /\ edContent' = text
    /\ UNCHANGED edTitle
    /\ handleInput
    /\ UNCHANGED << edNote, gemini, fades >>
    /\ lastOp' = [op |-> "input", arg |-> "content"]
    /\ UNCHANGED << currentUser, currentNoteId, noteToDeleteId, notesData,
                    searchTerm, isEditMode, view, gridIds, sidebarIds,
                    modalOpen, subs, owner, authReady, pendingCreates,
                    pendingDeletes, pendingUpdates, logoutPhase, updateLog,
                    previewOf >>

\* What #ai-result may hold when a result is applied.
AIResults == { <<"x">>, <<"Y">> }

\* app.applyAIResult, a method of window.app: put the result into
\* #note-content in place of its value or after it, then handleInput.  It
\* looks at neither the view nor the mode.
applyAIResult(mode, resultText) ==
    /\ edContent' = IF mode = "replace" THEN resultText
                    ELSE edContent \o <<"\n", "\n">> \o resultText
    /\ UNCHANGED edTitle
    /\ handleInput
    /\ UNCHANGED << edNote, gemini, fades >>
    /\ lastOp' = [op |-> "applyAI", arg |-> mode]
    /\ UNCHANGED << currentUser, currentNoteId, noteToDeleteId, notesData,
                    searchTerm, isEditMode, view, gridIds, sidebarIds,
                    modalOpen, subs, owner, authReady, pendingCreates,
                    pendingDeletes, pendingUpdates, logoutPhase, updateLog,
                    previewOf >>

\* As autosaveFired, but without the early return.
autosaveFiredUnguarded(h) ==
    /\ h \in armed
    /\ armed' = armed \ {h}
    /\ timerHist' = [timerHist EXCEPT ![h] = Ended(timerHist[h], "fired")]
    /\ LET call == [handle |-> h, uid |-> currentUser, id |-> currentNoteId,
                    title |-> edTitle, content |-> edContent]
       IN  /\ pendingUpdates' = Append(pendingUpdates, call)
           /\ updateLog' = Append(updateLog, h)
    /\ UNCHANGED << edNote, gemini, fades >>
    /\ lastOp' = [op |-> "timer", arg |-> h]
    /\ UNCHANGED << currentUser, currentNoteId, noteToDeleteId, notesData,
                    searchTerm, autosaveTimeout, isEditMode, view, edTitle,
                    edContent, saveStatus, gridIds, sidebarIds, modalOpen,
                    subs, owner, authReady, pendingCreates, pendingDeletes,
                    logoutPhase, previewOf >>

\* As autosaveFired, but always taking the early return.
autosaveFiredSilent(h) ==
    /\ h \in armed
    /\ armed' = armed \ {h}
    /\ timerHist' = [timerHist EXCEPT ![h] = Ended(timerHist[h], "fired")]
    /\ UNCHANGED << edNote, gemini, fades >>
    /\ lastOp' = [op |-> "timer", arg |-> h]
    /\ UNCHANGED << currentUser, currentNoteId, noteToDeleteId, notesData,
                    searchTerm, autosaveTimeout, isEditMode, view, edTitle,
                    edContent, saveStatus, gridIds, sidebarIds, modalOpen,
                    subs, owner, authReady, pendingCreates, pendingDeletes,
                    pendingUpdates, logoutPhase, updateLog, previewOf >>

\* The callback given to setTimeout, up to its await: return early, or read
\* the two inputs and issue updateDoc on the note that is open now.
autosaveFired(h) ==
    /\ h \in armed
    /\ armed' = armed \ {h}
    /\ timerHist' = [timerHist EXCEPT ![h] = Ended(timerHist[h], "fired")]
    /\ IF currentUser = NoUser \/ currentNoteId = NoNote
       THEN UNCHANGED << pendingUpdates, updateLog >>
       ELSE LET call == [handle |-> h, uid |-> currentUser, id |-> currentNoteId,
                         title |-> edTitle, content |-> edContent]
            IN  /\ pendingUpdates' = Append(pendingUpdates, call)
                /\ updateLog' = Append(updateLog, h)
    /\ UNCHANGED << edNote, gemini, fades >>
    /\ lastOp' = [op |-> "timer", arg |-> h]
    /\ UNCHANGED << currentUser, currentNoteId, noteToDeleteId, notesData,
                    searchTerm, autosaveTimeout, isEditMode, view, edTitle,
                    edContent, saveStatus, gridIds, sidebarIds, modalOpen,
                    subs, owner, authReady, pendingCreates, pendingDeletes,
                    logoutPhase, previewOf >>

\* As autosaveSettled, but issuing the rejected call once more.
autosaveSettledRetry(ok) ==
    /\ pendingUpdates # << >>
    /\ pendingUpdates' = IF ok THEN Tail(pendingUpdates)
                         ELSE Append(Tail(pendingUpdates), Head(pendingUpdates))
    /\ updateLog' = IF ok THEN updateLog
                    ELSE Append(updateLog, Head(pendingUpdates).handle)
    /\ saveStatus' = IF ok THEN "saved" ELSE "error"
    /\ fades' = IF ok THEN fades + 1 ELSE fades
    /\ UNCHANGED << edNote, gemini >>
    /\ lastOp' = [op |-> IF ok THEN "updateAck" ELSE "updateFail",
                  arg |-> Head(pendingUpdates).handle]
    /\ UNCHANGED << currentUser, currentNoteId, noteToDeleteId, notesData,
                    searchTerm, autosaveTimeout, isEditMode, view, edTitle,
                    edContent, gridIds, sidebarIds, modalOpen, armed, subs,
                    owner, authReady, pendingCreates, pendingDeletes,
                    logoutPhase, timerHist, previewOf >>

\* The callback after its await: updateDoc resolved or was rejected.
\* UI.updateSaveStatus shows the label and sets its text; for "saved" it
\* also sets a 2000 ms timer that fades the label out.
autosaveSettled(ok) ==
    /\ pendingUpdates # << >>
    /\ pendingUpdates' = Tail(pendingUpdates)
    /\ saveStatus' = IF ok THEN "saved" ELSE "error"
    /\ fades' = IF ok THEN fades + 1 ELSE fades
    /\ UNCHANGED << edNote, gemini >>
    /\ lastOp' = [op |-> IF ok THEN "updateAck" ELSE "updateFail",
                  arg |-> Head(pendingUpdates).handle]
    /\ UNCHANGED << currentUser, currentNoteId, noteToDeleteId, notesData,
                    searchTerm, autosaveTimeout, isEditMode, view, edTitle,
                    edContent, gridIds, sidebarIds, modalOpen, armed, subs,
                    owner, authReady, pendingCreates, pendingDeletes,
                    logoutPhase, updateLog, timerHist, previewOf >>

\* The callback of the 2000 ms timer set with "saved": the label gets
\* opacity-0 and shows nothing, whatever its text is by then.
saveStatusFade ==
    /\ fades > 0
    /\ fades' = fades - 1
    /\ saveStatus' = "hidden"
    /\ UNCHANGED << edNote, gemini >>
    /\ lastOp' = [op |-> "fade", arg |-> fades]
    /\ UNCHANGED << currentUser, currentNoteId, noteToDeleteId, notesData,
                    searchTerm, autosaveTimeout, isEditMode, view, edTitle,
                    edContent, gridIds, sidebarIds, modalOpen, armed, subs,
                    owner, authReady, pendingCreates, pendingDeletes,
                    pendingUpdates, logoutPhase, updateLog, timerHist,
                    previewOf >>

\* ------------------------------------------------------- preview and search
\* As toggleEditorMode, but with the two branches exchanged: rendering when
\* edit mode is entered.
toggleEditorModeSwapped ==
    /\ view = "editor"
    /\ isEditMode' = ~isEditMode
    /\ previewOf' = IF isEditMode' THEN edContent ELSE previewOf
    /\ UNCHANGED << edNote, gemini, fades >>
    /\ lastOp' = [op |-> "toggle", arg |-> isEditMode']
    /\ UNCHANGED << currentUser, currentNoteId, noteToDeleteId, notesData,
                    searchTerm, autosaveTimeout, view, edTitle, edContent,
                    saveStatus, gridIds, sidebarIds, modalOpen, armed, subs,
                    owner, authReady, pendingCreates, pendingDeletes,
                    pendingUpdates, logoutPhase, updateLog, timerHist >>

\* UI.toggleEditorMode, reached by Ctrl+E while the editor view is shown.
\* Entering preview renders the content into #note-preview.
toggleEditorMode ==
    /\ view = "editor"
    /\ isEditMode' = ~isEditMode
    /\ previewOf' = IF isEditMode' THEN previewOf ELSE edContent
    /\ UNCHANGED << edNote, gemini, fades >>
    /\ lastOp' = [op |-> "toggle", arg |-> isEditMode']
    /\ UNCHANGED << currentUser, currentNoteId, noteToDeleteId, notesData,
                    searchTerm, autosaveTimeout, view, edTitle, edContent,
                    saveStatus, gridIds, sidebarIds, modalOpen, armed, subs,
                    owner, authReady, pendingCreates, pendingDeletes,
                    pendingUpdates, logoutPhase, updateLog, timerHist >>

\* As SearchInput, but filtering the cache in place.
SearchInputInPlace(text) ==
    /\ view = "dashboard"
    /\ text # searchTerm
    /\ searchTerm' = text
    /\ notesData' = filteredNotes(notesData, searchTerm')
    /\ gridIds' = Ids(notesData')
    /\ UNCHANGED << edNote, gemini, fades >>
    /\ lastOp' = [op |-> "search", arg |-> text]
    /\ UNCHANGED << currentUser, currentNoteId, noteToDeleteId,
                    autosaveTimeout, isEditMode, view, edTitle, edContent,
                    saveStatus, sidebarIds, modalOpen, armed, subs, owner,
                    authReady, pendingCreates, pendingDeletes, pendingUpdates,
                    logoutPhase, updateLog, timerHist, previewOf >>

\* The input listener of #search-input, a control of the dashboard view.
SearchInput(text) ==
    /\ view = "dashboard"
    /\ text # searchTerm
    /\ searchTerm' = text
    /\ gridIds' = renderDashboard(notesData, searchTerm')
    /\ UNCHANGED << edNote, gemini, fades >>
    /\ lastOp' = [op |-> "search", arg |-> text]
    /\ UNCHANGED << currentUser, currentNoteId, noteToDeleteId, notesData,
                    autosaveTimeout, isEditMode, view, edTitle, edContent,
                    saveStatus, sidebarIds, modalOpen, armed, subs, owner,
                    authReady, pendingCreates, pendingDeletes, pendingUpdates,
                    logoutPhase, updateLog, timerHist, previewOf >>

\* ------------------------------------------------------------------ logout
\* app.logout up to its await: signOut is called.
logout ==
    /\ view \in {"dashboard", "editor"}
    /\ logoutPhase = "idle"
    /\ logoutPhase' = "signOut"
    /\ UNCHANGED << edNote, gemini, fades >>
    /\ lastOp' = [op |-> "logout", arg |-> currentUser]
    /\ UNCHANGED << currentUser, currentNoteId, noteToDeleteId, notesData,
                    searchTerm, autosaveTimeout, isEditMode, view, edTitle,
                    edContent, saveStatus, gridIds, sidebarIds, modalOpen,
                    armed, subs, owner, authReady, pendingCreates,
                    pendingDeletes, pendingUpdates, updateLog, timerHist,
                    previewOf >>

\* app.logout after its await: signOut resolved, which is after the observer
\* was told; window.location.reload() starts the page afresh.  The remote
\* store is all that outlives the page.
logoutReload ==
    /\ logoutPhase = "signOut"
    /\ currentUser = NoUser
    /\ currentNoteId' = NoNote
    /\ noteToDeleteId' = NoNote
    /\ notesData' = << >>
    /\ searchTerm' = << >>
    /\ autosaveTimeout' = NoHandle
    /\ isEditMode' = TRUE
    /\ view' = "login"
    /\ edTitle' = << >>
    /\ edContent' = << >>
    /\ saveStatus' = "hidden"
    /\ gridIds' = << >>
    /\ sidebarIds' = << >>
    /\ modalOpen' = FALSE
    /\ armed' = {}
    /\ subs' = [u \in Users |-> 0]
    /\ authReady' = FALSE
    /\ pendingCreates' = << >>
    /\ pendingDeletes' = << >>
    /\ pendingUpdates' = << >>
    /\ logoutPhase' = "idle"
    /\ updateLog' = << >>
    /\ timerHist' = [h \in Handles |-> NoTimer]
    /\ previewOf' = << >>
    /\ fades' = 0
    /\ edNote' = NoNote
    /\ gemini' = GeminiIdle
    /\ lastOp' = [op |-> "load", arg |-> NoNote]
    /\ UNCHANGED << currentUser, owner >>

\* app.logout after its await: signOut was rejected; console.error only.
logoutRejected ==
    /\ logoutPhase = "signOut"
    /\ currentUser # NoUser
    /\ logoutPhase' = "idle"
    /\ UNCHANGED << edNote, gemini, fades >>
    /\ lastOp' = [op |-> "logoutFail", arg |-> currentUser]
    /\ UNCHANGED << currentUser, currentNoteId, noteToDeleteId, notesData,
                    searchTerm, autosaveTimeout, isEditMode, view, edTitle,
                    edContent, saveStatus, gridIds, sidebarIds, modalOpen,
                    armed, subs, owner, authReady, pendingCreates,
                    pendingDeletes, pendingUpdates, updateLog, timerHist,
                    previewOf >>

\* --------------------------------------------------------------- gemini.js
\* Everything generateContent leaves alone: the state of app.js and ui.js.
appVars ==
    << currentUser, currentNoteId, noteToDeleteId, notesData, searchTerm,
       autosaveTimeout, isEditMode, view, edTitle, edContent, saveStatus,
       gridIds, sidebarIds, modalOpen, armed, subs, owner, authReady,
       pendingCreates, pendingDeletes, pendingUpdates, logoutPhase,
       updateLog, timerHist, previewOf, fades, edNote >>

\* What generateContent throws once the loop is over.
AllModelsFailed(message) == << "All models failed. Last error: ", message >>

\* GeminiService.setApiKey(key): initialize(key) builds a new client, or
\* leaves none when the constructor throws, whatever the calls in flight.
setApiKey(clientOk) ==
    /\ gemini' = [gemini EXCEPT !.client = clientOk]
    /\ lastOp' = [op |-> "setApiKey", arg |-> clientOk]
    /\ UNCHANGED appVars

\* GeminiService.generateContent up to its first await: initialize() leaves
\* a client or none (the constructor threw); without one it throws, with one
\* it asks the first model.  Nothing keeps a second call from starting while
\* one is awaited.
generateContent(clientOk) ==
    /\ Len(gemini.runs) < MaxCalls
    /\ gemini' =
           IF clientOk
           THEN [client |-> TRUE,
                 asked |-> Append(gemini.asked, modelsToTry[1]),
                 runs |-> Append(gemini.runs,
                     [phase |-> "calling", at |-> "generateContent",
                      idx |-> 1, lastError |-> "null",
                      calls |-> << modelsToTry[1] >>, answers |-> << >>,
                      caught |-> << >>, value |-> << >>])]
           ELSE [client |-> FALSE,
                 asked |-> gemini.asked,
                 runs |-> Append(gemini.runs,
                     [phase |-> "thrown", at |-> "none",
                      idx |-> 0, lastError |-> "null",
                      calls |-> << >>, answers |-> << >>,
                      caught |-> << >>,
                      value |-> << "Gemini Client not initialized. Please check your API Key." >>])]
    /\ lastOp' = [op |-> "generateContent", arg |-> clientOk]
    /\ UNCHANGED appVars

\* `await model.generateContent(prompt)` of call c resolved: the function
\* goes on to `await result.response`, where it is suspended once more.
modelAnswered(c) ==
    /\ c \in 1..Len(gemini.runs)
    /\ gemini.runs[c].phase = "calling"
    /\ gemini.runs[c].at = "generateContent"
    /\ gemini' = [gemini EXCEPT !.runs[c].at = "response"]
    /\ lastOp' = [op |-> "modelAnswered", arg |-> modelsToTry[gemini.runs[c].idx]]
    /\ UNCHANGED appVars

\* `await result.response` of call c resolved and response.text() gave the
\* text: return it.
modelResolved(c, text) ==
    /\ c \in 1..Len(gemini.runs)
    /\ gemini.runs[c].phase = "calling"
    /\ gemini.runs[c].at = "response"
    /\ gemini' =
           [gemini EXCEPT
               !.runs[c].phase = "returned",
               !.runs[c].at = "none",
               !.runs[c].answers =
                   Append(@, [model |-> modelsToTry[gemini.runs[c].idx],
                              ok |-> TRUE, payload |-> text]),
               !.runs[c].value = << text >>]
    /\ lastOp' = [op |-> "modelResolved", arg |-> text]
    /\ UNCHANGED appVars

\* n copies of the TypeError message: the iterations left when this.genAI
\* is null each throw it at getGenerativeModel, inside the try.
NullClientErrors(n) == [i \in 1..n |-> NullClientError]

\* As modelRejected, but keeping the first error instead of the last.
modelRejectedKeepFirst(c, message) ==
    LET run == gemini.runs[c]
        kept == IF run.lastError = "null" THEN message ELSE run.lastError
        answered == Append(run.answers,
                           [model |-> modelsToTry[run.idx], ok |-> FALSE,
                            payload |-> message])
        left == Len(modelsToTry) - run.idx
    IN  /\ c \in 1..Len(gemini.runs)
        /\ run.phase = "calling"
        /\ gemini' =
               IF left > 0 /\ gemini.client
               THEN [gemini EXCEPT
                        !.asked = Append(@, modelsToTry[run.idx + 1]),
                        !.runs[c] = [run EXCEPT
                            !.lastError = kept, !.answers = answered,
                            !.caught = Append(@, message),
                            !.idx = @ + 1, !.at = "generateContent",
                            !.calls = Append(@, modelsToTry[run.idx + 1])]]
               ELSE [gemini EXCEPT
                        !.runs[c] = [run EXCEPT
                            !.lastError = kept, !.answers = answered,
                            !.caught = Append(@, message) \o NullClientErrors(left),
                            !.phase = "thrown", !.at = "none",
                            !.value = AllModelsFailed(kept)]]
        /\ lastOp' = [op |-> "modelRejected", arg |-> message]
        /\ UNCHANGED appVars

\* An await of the try block of call c rejected or response.text() threw:
\* the catch keeps the error and the loop goes to the next model, reading
\* this.genAI again.  With a client it asks that model; with none (a later
\* initialize whose constructor threw) getGenerativeModel throws a TypeError
\* inside the try for every model left, the catch keeps it and the loop
\* ends.  After the last model the function throws.
modelRejected(c, message) ==
    LET run == gemini.runs[c]
        answered == Append(run.answers,
                           [model |-> modelsToTry[run.idx], ok |-> FALSE,
                            payload |-> message])
        left == Len(modelsToTry) - run.idx
        last == IF left > 0 THEN NullClientError ELSE message
    IN  /\ c \in 1..Len(gemini.runs)
        /\ run.phase = "calling"
        /\ gemini' =
               IF left > 0 /\ gemini.client
               THEN [gemini EXCEPT
                        !.asked = Append(@, modelsToTry[run.idx + 1]),
                        !.runs[c] = [run EXCEPT
                            !.lastError = message, !.answers = answered,
                            !.caught = Append(@, message),
                            !.idx = @ + 1, !.at = "generateContent",
                            !.calls = Append(@, modelsToTry[run.idx + 1])]]
               ELSE [gemini EXCEPT
                        !.runs[c] = [run EXCEPT
                            !.lastError = last, !.answers = answered,
                            !.caught = Append(@, message) \o NullClientErrors(left),
                            !.phase = "thrown", !.at = "none",
                            !.value = AllModelsFailed(last)]]
        /\ lastOp' = [op |-> "modelRejected", arg |-> message]
        /\ UNCHANGED appVars

\* ----------------------------------------------------------- specification
Next ==
    \/ \E user \in Users \cup {NoUser} : onAuthStateChanged(user)
    \/ \E u \in Users : \E docs \in Snapshots(u) : SnapshotDelivered(u, docs)
    \/ \E u \in Users : onSnapshotError(u)
    \/ \E id \in NoteIds : OpenNoteClicked(id)
    \/ BackToDashboard
    \/ KeyCtrlK
    \/ \E id \in NoteIds : requestDelete(id)
    \/ CancelDelete
    \/ confirmDelete
    \/ confirmDeleteResolved
    \/ confirmDeleteRejected
    \/ createNewNote
    \/ createNewNoteResolved
    \/ createNewNoteRejected
    \/ \E text \in TypedTexts \cup StoredTexts : TitleInput(text)
    \/ \E text \in TypedTexts \cup StoredTexts : ContentInput(text)
    \/ \E h \in Handles : autosaveFired(h)
    \/ \E ok \in BOOLEAN : autosaveSettled(ok)
    \/ saveStatusFade
    \/ \E mode \in {"replace", "append"} : \E r \in AIResults : applyAIResult(mode, r)
    \/ toggleEditorMode
    \/ \E text \in SearchTerms : SearchInput(text)
    \/ logout
    \/ logoutReload
    \/ logoutRejected
    \/ \E clientOk \in BOOLEAN : setApiKey(clientOk)
    \/ \E clientOk \in BOOLEAN : generateContent(clientOk)
    \/ \E c \in 1..MaxCalls : modelAnswered(c)
    \/ \E c \in 1..MaxCalls : \E text \in GeminiTexts : modelResolved(c, text)
    \/ \E c \in 1..MaxCalls : \E message \in GeminiErrors : modelRejected(c, message)

Spec == Init /\ [][Next]_vars

\* The whole program is Spec.  The specifications below keep its state, its
\* Init and its actions and leave out the events of the features a group of
\* properties does not involve, so that TLC can visit every state.

\* Session, subscription and navigation: every event but those of the editor
\* inputs, the delete modal, the preview toggle and the search field.
NextSession ==
    \/ \E user \in Users \cup {NoUser} : onAuthStateChanged(user)
    \/ \E u \in Users : \E docs \in Snapshots(u) : SnapshotDelivered(u, docs)
    \/ \E u \in Users : onSnapshotError(u)
    \/ \E id \in NoteIds : OpenNoteClicked(id)
    \/ BackToDashboard
    \/ KeyCtrlK
    \/ createNewNote
    \/ createNewNoteResolved
    \/ createNewNoteRejected
    \/ logout
    \/ logoutReload
    \/ logoutRejected

SpecSession == Init /\ [][NextSession]_vars

\* The snapshots in which every document holds text: what the editor of the
\* autosave runs is filled from, distinct from every text that is typed.
WrittenSnapshots(u) ==
    {d \in Snapshots(u) : \A i \in 1..Len(d) : d[i].data.title # << >>}

\* Autosave: one identity signing in and out, snapshots, navigation between
\* notes and the dashboard, typing, the debounce timer and the write's
\* acknowledgement.
NextAutosave ==
    \/ \E user \in {"u1", NoUser} : onAuthStateChanged(user)
    \/ \E u \in Users : \E docs \in WrittenSnapshots(u) : SnapshotDelivered(u, docs)
    \/ \E id \in NoteIds : OpenNoteClicked(id)
    \/ BackToDashboard
    \/ \E text \in {<<"x">>} : TitleInput(text)
    \/ \E text \in TypedTexts : ContentInput(text)
    \/ \E h \in Handles : autosaveFired(h)
    \/ \E ok \in BOOLEAN : autosaveSettled(ok)
    \/ saveStatusFade
    \/ applyAIResult("replace", <<"x">>)

SpecAutosave == Init /\ [][NextAutosave]_vars

\* ------------------------------------------------------------- properties
Last(s) == s[Len(s)]

CacheIds == Range(Ids(notesData))

\* C1: right after the handler of a snapshot has run, the cache is exactly
\* that snapshot's documents, one note per document in the same order, each
\* with the document's id and fields; nothing of an earlier snapshot is left.
C1_CacheIsSnapshot ==
    lastOp.op = "snapshot" =>
        /\ Len(notesData) = Len(lastOp.arg)
        /\ \A i \in 1..Len(lastOp.arg) :
              /\ notesData[i].id = lastOp.arg[i].id
              /\ notesData[i].title = lastOp.arg[i].data.title
              /\ notesData[i].content = lastOp.arg[i].data.content
              /\ notesData[i].userId = lastOp.arg[i].data.userId

\* C1 witness: a snapshot without the note that is open (so an earlier
\* snapshot held it) has just replaced the cache.
C1_Witness ==
    /\ lastOp.op = "snapshot"
    /\ view = "editor"
    /\ currentNoteId = "n1"
    /\ Ids(lastOp.arg) = <<"n2">>
    /\ Ids(notesData) = <<"n2">>

\* C2: at most one remote subscription is live in every reachable state.
C2_OneSubscription == TotalSubs <= 1

\* C3: every note in the cache is owned by the identity that is
\* authenticated now.
C3_CacheOwnedByCurrentUser ==
    \A i \in 1..Len(notesData) : notesData[i].userId = currentUser

\* C4: from the observer's "signed out" until the next sign-in, no
\* subscription is live and the cache is empty.
C4_SignedOutTornDownAndEmpty ==
    (authReady /\ currentUser = NoUser) => (TotalSubs = 0 /\ notesData = << >>)

\* C5: right after the observer's "signed out", currentNoteId is null,
\* pendingDeleteId is null and the cache is empty.
C5_SignOutDiscardsSession ==
    (lastOp.op = "auth" /\ lastOp.arg = NoUser) =>
        (currentNoteId = NoNote /\ noteToDeleteId = NoNote /\ notesData = << >>)

\* C9: right after openNote(id) with id absent from the cache, whether from
\* a click or from createNewNote, currentNoteId is null and the dashboard
\* view is shown.
C9_OpenAbsentNote ==
    (lastOp.op \in {"openNote", "createAck"} /\ lastOp.arg.id \notin CacheIds) =>
        (currentNoteId = NoNote /\ view = "dashboard")

\* C9 witness: openNote has just run for an id absent from the cache while
\* the editor was on another note.
C9_Witness ==
    /\ lastOp.op \in {"openNote", "createAck"}
    /\ lastOp.arg.id \notin CacheIds
    /\ lastOp.arg.from \notin {NoNote, lastOp.arg.id}
    /\ currentNoteId = NoNote
    /\ view = "dashboard"

\* C10: right after a snapshot delivery, currentNoteId is null or the id of
\* a note of the replaced cache.
C10_OpenNoteInFreshCache ==
    lastOp.op = "snapshot" => (currentNoteId = NoNote \/ currentNoteId \in CacheIds)

\* The step in which the timer h fires.
Fires(h) == h \in armed /\ h \notin armed' /\ lastOp'.op = "timer" /\ lastOp'.arg = h

\* The timer h was set by the second of two handleInput calls within the
\* debounce window (the first one's timer was still armed), with a note open
\* and an identity authenticated, and from the first call on currentNoteId
\* and currentUser have kept their values: the same note has stayed open and
\* the identity has stayed authenticated.
SecondOfBurst(h) ==
    /\ timerHist[h].state = "armed"
    /\ timerHist[h].after # NoHandle
    /\ timerHist[h].same
    /\ timerHist[timerHist[h].after].same
    /\ timerHist[h].note # NoNote
    /\ timerHist[h].user # NoUser

\* C6: when the timer of the second of two handleInput calls within the
\* debounce window fires, the same note having stayed open and the identity
\* authenticated, exactly one updateDoc call has been issued for the two
\* calls: none by the first call's timer, which is no longer armed, and one
\* now, on the open note, carrying the title and content of the second edit.
C6_BurstWritesLastEditOnce ==
    [][\A h \in Handles :
        (Fires(h) /\ SecondOfBurst(h)) =>
            /\ timerHist[h].after \notin Range(updateLog')
            /\ timerHist[h].after \notin armed'
            /\ updateLog' = Append(updateLog, h)
            /\ h \notin Range(updateLog)
            /\ pendingUpdates' =
                   Append(pendingUpdates,
                          [handle |-> h, uid |-> timerHist[h].user,
                           id |-> timerHist[h].note,
                           title |-> timerHist[h].title,
                           content |-> timerHist[h].content])]_vars

\* C7: an updateDoc call issued by a timer targets the note that was open
\* when the timer was set.
C7_WriteTargetsScheduledNote ==
    [][\A h \in Handles :
        (Fires(h) /\ updateLog' # updateLog) =>
            Last(pendingUpdates').id = timerHist[h].note]_vars

\* C8: when the timer fires while no note is open or no identity is
\* authenticated, no updateDoc call is issued and the cache, currentNoteId
\* and pendingDeleteId stay as they are.
C8_FireWithoutSessionIsSilent ==
    [][\A h \in Handles :
        (Fires(h) /\ (currentUser = NoUser \/ currentNoteId = NoNote)) =>
            UNCHANGED << updateLog, pendingUpdates, notesData, currentNoteId,
                         noteToDeleteId >>]_vars

\* C8 witness: a timer set in the editor has fired after the return to the
\* dashboard and no call was issued.
C8_Witness ==
    /\ lastOp.op = "timer"
    /\ timerHist[lastOp.arg].state = "fired"
    /\ currentUser # NoUser
    /\ currentNoteId = NoNote
    /\ view = "dashboard"
    /\ updateLog = << >>
    /\ pendingUpdates = << >>

\* ------------------------------------------------- delete, create, errors
\* Delete: one identity signing in and out, snapshots, navigation and the
\* delete modal with its call and both of its outcomes.
NextDelete ==
    \/ \E user \in {"u1", NoUser} : onAuthStateChanged(user)
    \/ \E u \in Users : \E docs \in WrittenSnapshots(u) : SnapshotDelivered(u, docs)
    \/ \E id \in NoteIds : OpenNoteClicked(id)
    \/ BackToDashboard
    \/ \E id \in NoteIds : requestDelete(id)
    \/ CancelDelete
    \/ confirmDelete
    \/ confirmDeleteResolved
    \/ confirmDeleteRejected

SpecDelete == Init /\ [][NextDelete]_vars

\* C11: right after a confirmed delete call has succeeded, currentNoteId is
\* null if the deleted id was the open note, and is what it was if not.
C11_DeleteNavigatesByDeletedId ==
    lastOp.op = "deleteAck" =>
        IF lastOp.arg.id = lastOp.arg.open
        THEN currentNoteId = NoNote
        ELSE currentNoteId = lastOp.arg.open

\* ------------------------------------------------------- dashboard filter
\* Titles, contents and search terms long enough for a term to occur inside
\* a text, at its start or not at all, in either case.
FilterTitles == { << >>, <<"T", "x">> }
FilterContents == { << >>, <<"m">>, <<"x", "M">>, <<"m", "X", "m">> }
FilterTerms == { << >>, <<"x">>, <<"X", "m">>, <<"M", "x">>, <<"t">>, <<"m", "m">> }

FilterSnapshots(u) ==
    LET docs == { [id |-> i, data |-> [title |-> t, content |-> c, userId |-> u]] :
                    i \in {j \in NoteIds : owner[j] = u},
                    t \in FilterTitles, c \in FilterContents }
    IN  { d \in UNION { [1..n -> docs] : n \in 0..MaxNotes } :
            \A i, j \in 1..Len(d) : d[i].id = d[j].id => i = j }

\* A live listener delivers a snapshot whose documents hold such texts.
SnapshotOfTexts(u, docs) ==
    /\ subs[u] > 0
    /\ docs \in FilterSnapshots(u)
    /\ onSnapshotNext(docs)
    /\ UNCHANGED << edNote, gemini, fades >>
    /\ lastOp' = [op |-> "snapshot", arg |-> docs]
    /\ UNCHANGED << currentUser, currentNoteId, noteToDeleteId, searchTerm,
                    autosaveTimeout, isEditMode, view, edTitle, edContent,
                    saveStatus, modalOpen, armed, subs, owner, authReady,
                    pendingCreates, pendingDeletes, pendingUpdates,
                    logoutPhase, updateLog, timerHist, previewOf >>

\* Filter: one identity signs in, snapshots arrive and the search box is typed in.
NextFilter ==
    \/ onAuthStateChanged("u1")
    \/ \E docs \in FilterSnapshots("u1") : SnapshotOfTexts("u1", docs)
    \/ \E text \in FilterTerms : SearchInput(text)

SpecFilter == Init /\ [][NextFilter]_vars

\* Two characters are the same letter: equal, or the two cases of one letter.
SameLetter(a, b) ==
    a = b \/ {a, b} \in { {"x", "X"}, {"y", "Y"}, {"m", "M"}, {"t", "T"} }

\* Needle occurs in hay from some position on, letter for letter.
ContainsIgnoringCase(hay, needle) ==
    \E s \in 1..(Len(hay) + 1) :
        /\ s + Len(needle) - 1 <= Len(hay)
        /\ \A k \in 1..Len(needle) : SameLetter(hay[s + k - 1], needle[k])

\* r is notes restricted to the positions whose note contains the term, in
\* the order of notes.
IsSelection(r, notes, term) ==
    LET hits == { i \in 1..Len(notes) :
                    \/ ContainsIgnoringCase(notes[i].title, term)
                    \/ ContainsIgnoringCase(notes[i].content, term) }
    IN  \E f \in [1..Len(r) -> 1..Len(notes)] :
            /\ \A j, k \in 1..Len(r) : j < k => f[j] < f[k]
            /\ {f[j] : j \in 1..Len(r)} = hits
            /\ \A j \in 1..Len(r) : r[j] = notes[f[j]]

\* C12: for every cache and search term the dashboard filter yields exactly
\* the notes whose title or content contains the term as a case-insensitive
\* substring, unchanged and in the order of the cache; for the empty term it
\* yields the whole cache.  The grid shows the cards of those notes.
C12_FilterIsCaseInsensitiveSelection ==
    LET r == filteredNotes(notesData, searchTerm)
    IN  /\ IsSelection(r, notesData, searchTerm)
        /\ searchTerm = << >> => r = notesData
        /\ Len(gridIds) = Len(r)
        /\ \A j \in 1..Len(r) : gridIds[j] = r[j].id

\* A two-character term in the other case is found inside the content of
\* the second note only.
C12_Witness ==
    /\ lastOp.op = "search"
    /\ searchTerm = <<"X", "m">>
    /\ Len(notesData) = 2
    /\ notesData[1].content = <<"m">>
    /\ notesData[1].title = << >>
    /\ notesData[2].content = <<"m", "X", "m">>
    /\ gridIds = <<notesData[2].id>>

\* C13: right after the create-note call has succeeded and returned the new
\* id, the editor is open on that id in edit mode, whether or not the
\* snapshot that first holds the new note has been delivered.
C13_CreateOpensEditorOnNewNote ==
    lastOp.op = "createAck" =>
        /\ currentNoteId = lastOp.arg.id
        /\ view = "editor"
        /\ isEditMode

\* -------------------------------------------------------- save outcomes
\* C14: when the update call of a timer fails the status becomes "error",
\* when it succeeds "saved"; either way the title and content in the editor
\* stay as they are and no timer is set.  Update calls are issued by timers
\* only and timers are set by handleInput only (an input event or an applied
\* AI result), so a failed call is not repeated until the next handleInput.
C14_SettledCallSetsStatusNoRetry ==
    [][ /\ lastOp'.op = "updateFail" => saveStatus' = "error"
        /\ lastOp'.op = "updateAck" => saveStatus' = "saved"
        /\ lastOp'.op \in {"updateFail", "updateAck"} =>
               /\ pendingUpdates' = Tail(pendingUpdates)
               /\ UNCHANGED << edTitle, edContent, armed, autosaveTimeout,
                               updateLog >>
        /\ updateLog' # updateLog => \E h \in armed : Fires(h)
        /\ armed' \ armed # {} => lastOp'.op \in {"input", "applyAI"} ]_vars

\* A call carrying typed content was rejected: "error" is shown, the typed
\* content is still in the editor, no timer is set and no call is in flight.
C14_Witness ==
    /\ lastOp.op = "updateFail"
    /\ saveStatus = "error"
    /\ view = "editor"
    /\ edContent \in TypedTexts
    /\ armed = {}
    /\ pendingUpdates = << >>

\* C15: right after the error callback of the notes listener has run, the
\* cache is empty and that listener is gone.
C15_ListenerErrorClearsCache ==
    lastOp.op = "listenError" =>
        /\ notesData = << >>
        /\ subs[lastOp.arg] = 0

\* C16: at most one autosave timer is armed.
C16_OneTimerArmed == Cardinality(armed) <= 1

\* A second input inside the debounce window: the first timer was cleared
\* and the second is the one armed.
C16_Witness ==
    /\ armed = {2}
    /\ timerHist[1].state = "cleared"
    /\ timerHist[2].after = 1

\* ------------------------------------------------------ autosave liveness
\* setTimeout runs its callback once the delay has passed unless the timer
\* was cleared: an armed timer does not stay armed for ever.
SpecAutosaveFair ==
    /\ Init
    /\ [][NextAutosave]_vars
    /\ \A h \in Handles : WF_vars(autosaveFired(h))

\* Timer h has just fired and issued, as its only call, an update of the
\* open note carrying the title and content now in the editor.
IssuedLatest(h) ==
    /\ lastOp = [op |-> "timer", arg |-> h]
    /\ pendingUpdates # << >>
    /\ Last(pendingUpdates) =
           [handle |-> h, uid |-> currentUser, id |-> currentNoteId,
            title |-> edTitle, content |-> edContent]
    /\ currentUser # NoUser
    /\ currentNoteId # NoNote
    /\ Cardinality({i \in 1..Len(updateLog) : updateLog[i] = h}) = 1

NextEditor ==
    \/ \E user \in {"u1", NoUser} : onAuthStateChanged(user)
    \/ \E u \in Users : \E docs \in WrittenSnapshots(u) : SnapshotDelivered(u, docs)
    \/ \E id \in NoteIds : OpenNoteClicked(id)
    \/ BackToDashboard
    \/ TitleInput(<<"x">>)
    \/ \E text \in TypedTexts : ContentInput(text)
    \/ \E mode \in {"replace", "append"} : applyAIResult(mode, <<"x">>)
    \/ toggleEditorMode

SpecEditor == Init /\ [][NextEditor]_vars

\* C18: right after a note that is in the cache has been opened, the editor
\* shows it in edit mode: currentNoteId is its id and isEditMode is true,
\* whatever the mode was before.
C18_OpenNoteEntersEditMode ==
    lastOp.op = "openNote" /\ lastOp.arg.id \in CacheIds =>
        /\ currentNoteId = lastOp.arg.id
        /\ isEditMode
        /\ view = "editor"

\* A note was opened from the preview of another note.
C18_Witness ==
    /\ lastOp.op = "openNote"
    /\ lastOp.arg.id \in CacheIds
    /\ ~lastOp.arg.edit
    /\ lastOp.arg.from \notin {NoNote, lastOp.arg.id}
    /\ currentNoteId = lastOp.arg.id
    /\ isEditMode

\* C19: the Markdown renderer writes #note-preview only in a toggle from
\* edit to preview mode, and then from the content in the editor; a toggle
\* back to edit mode, typing, opening a note, a snapshot or any other step
\* leaves the preview as it is.  Every toggle flips isEditMode and changes
\* neither currentNoteId nor the cache.
C19_RenderOnlyOnEnteringPreview ==
    [][ /\ previewOf' # previewOf =>
               lastOp'.op = "toggle" /\ isEditMode /\ ~isEditMode'
        /\ lastOp'.op = "toggle" =>
               /\ isEditMode' = ~isEditMode
               /\ UNCHANGED << currentNoteId, notesData >>
               /\ previewOf' = IF isEditMode THEN edContent ELSE previewOf ]_vars

\* Typed content was rendered by a toggle into preview mode.
C19_Witness ==
    /\ lastOp = [op |-> "toggle", arg |-> FALSE]
    /\ ~isEditMode
    /\ view = "editor"
    /\ currentNoteId # NoNote
    /\ edContent \in TypedTexts
    /\ previewOf = edContent

\* C20: right after a cancel, and right after a confirmed delete call has
\* completed with success or with failure, noteToDeleteId is null.
C20_PendingDeleteCleared ==
    lastOp.op \in {"closeModal", "deleteAck", "deleteFail"} =>
        noteToDeleteId = NoNote

\* ---------------------------------------------------------- frame effects
\* Frame: one identity signing in and out, snapshots, navigation, typing,
\* the delete modal opened and cancelled, the mode toggle and the search box.
NextFrame ==
    \/ \E user \in {"u1", NoUser} : onAuthStateChanged(user)
    \/ \E u \in Users : \E docs \in WrittenSnapshots(u) : SnapshotDelivered(u, docs)
    \/ \E id \in NoteIds : OpenNoteClicked(id)
    \/ BackToDashboard
    \/ \E text \in TypedTexts : ContentInput(text)
    \/ \E id \in NoteIds : requestDelete(id)
    \/ CancelDelete
    \/ toggleEditorMode
    \/ applyAIResult("replace", <<"x">>)
    \/ \E text \in SearchTerms : SearchInput(text)

SpecFrame == Init /\ [][NextFrame]_vars

\* C21: a change of the search term re-renders the grid from the cache and
\* the new term and leaves the cache, currentNoteId, noteToDeleteId and the
\* autosave timer as they are; no remote call is issued.
C21_SearchChangesOnlyTheGrid ==
    [][ lastOp'.op = "search" =>
            /\ searchTerm' = lastOp'.arg
            /\ gridIds' = Ids(filteredNotes(notesData, searchTerm'))
            /\ UNCHANGED << notesData, currentNoteId, noteToDeleteId,
                            autosaveTimeout, armed, timerHist,
                            pendingCreates, pendingDeletes, pendingUpdates,
                            updateLog, owner, subs >> ]_vars

\* A search that hides a note of the cache, made while a timer is armed, a
\* delete is awaiting its confirmation and a note id is set.
C21_Witness ==
    /\ lastOp.op = "search"
    /\ Len(notesData) = 2
    /\ Len(gridIds) < 2
    /\ armed # {}
    /\ noteToDeleteId # NoNote
    /\ currentNoteId # NoNote

\* -------------------------------------------------------------- generation
\* Generation: setApiKey, generateContent calls and the answers of the
\* models, while one identity signs in and out.
NextGemini ==
    \/ \E user \in {"u1", NoUser} : onAuthStateChanged(user)
    \/ \E clientOk \in BOOLEAN : setApiKey(clientOk)
    \/ \E clientOk \in BOOLEAN : generateContent(clientOk)
    \/ \E c \in 1..MaxCalls : modelAnswered(c)
    \/ \E c \in 1..MaxCalls : \E text \in GeminiTexts : modelResolved(c, text)
    \/ \E c \in 1..MaxCalls : \E message \in GeminiErrors : modelRejected(c, message)

SpecGemini == Init /\ [][NextGemini]_vars

\* C22: every generateContent call asks the models in the order of
\* modelsToTry; it returns the text of the first model that succeeds and
\* asks no model after it; when every model has failed it throws one error
\* whose message carries the message of the last model's error.  A call
\* that has asked a model and throws has gone through every identifier, and
\* its message carries the last error its catch received.
C22_FirstSuccessOrLastError ==
    \A c \in 1..Len(gemini.runs) :
        LET run == gemini.runs[c]
            n == Len(run.answers)
            failed(k) == \A i \in 1..k : ~run.answers[i].ok
        IN  /\ run.calls = SubSeq(modelsToTry, 1, Len(run.calls))
            /\ \A i \in 1..n : run.answers[i].model = modelsToTry[i]
            /\ run.phase = "calling" => Len(run.calls) = n + 1 /\ failed(n)
            /\ run.phase = "returned" =>
                   /\ n >= 1
                   /\ Len(run.calls) = n
                   /\ failed(n - 1)
                   /\ run.answers[n].ok
                   /\ run.value = << run.answers[n].payload >>
            /\ run.phase = "thrown" /\ run.calls = modelsToTry =>
                   /\ n = Len(modelsToTry)
                   /\ failed(n)
                   /\ run.value =
                          << "All models failed. Last error: ",
                             run.answers[n].payload >>
            /\ run.phase = "thrown" /\ run.calls # << >> =>
                   /\ failed(n)
                   /\ Len(run.caught) = Len(modelsToTry)
                   /\ run.value =
                          << "All models failed. Last error: ",
                             run.caught[Len(run.caught)] >>

\* Both models failed a call with different messages, while another call
\* was awaited, and the error thrown carries the second message.
C22_Witness ==
    \E c, d \in 1..Len(gemini.runs) :
        /\ gemini.runs[c].phase = "thrown"
        /\ Len(gemini.runs[c].answers) = 2
        /\ gemini.runs[c].answers[1].payload # gemini.runs[c].answers[2].payload
        /\ gemini.runs[c].value[2] = gemini.runs[c].answers[2].payload
        /\ gemini.runs[d].phase = "calling"

\* ------------------------------------------------------- view and session
\* C23: the editor is the view shown exactly when currentNoteId is set.
C23_EditorShownIffNoteSet ==
    (view = "editor") <=> (currentNoteId # NoNote)

\* C24: while the auth observer has reported no identity, the view shown is
\* neither the dashboard nor the editor.
C24_SignedOutShowsLogin ==
    authReady /\ currentUser = NoUser => view \notin {"dashboard", "editor"}

\* C25: "saved" is shown only when every edit has been written: no autosave
\* timer is armed and no update call is in flight.
C25_SavedMeansEverythingWritten ==
    saveStatus = "saved" =>
        /\ armed = {}
        /\ pendingUpdates = << >>

\* C26: right after a delete call was acknowledged, currentNoteId is null
\* exactly when the note that was open was the deleted one, whatever was
\* cancelled, requested or opened while the call was in flight, and a
\* noteToDeleteId set by a later request for another note is still set.
C26_DeleteAckRefersToDeletedId ==
    lastOp.op = "deleteAck" =>
        /\ (currentNoteId = NoNote) <=>
               (lastOp.arg.open \in {NoNote, lastOp.arg.id})
        /\ lastOp.arg.pending \notin {NoNote, lastOp.arg.id} =>
               noteToDeleteId = lastOp.arg.pending

\* C27: a snapshot delivery replaces the cache and re-renders the grid and
\* the sidebar from it; the title and content in the editor, the autosave
\* timer, noteToDeleteId, searchTerm, the edit mode, currentNoteId and the
\* view stay as they are.
C27_SnapshotChangesOnlyTheCache ==
    [][ lastOp'.op = "snapshot" =>
            /\ notesData' = MapDocs(lastOp'.arg)
            /\ sidebarIds' = Ids(notesData')
            /\ UNCHANGED << edTitle, edContent, autosaveTimeout, armed,
                            timerHist, noteToDeleteId, modalOpen, searchTerm,
                            isEditMode, previewOf, currentNoteId, view,
                            saveStatus >> ]_vars

\* A snapshot arrived while the open note was shown in preview mode with
\* typed content that differs from its document, a timer armed, a delete
\* awaiting confirmation and a search term set.
C27_Witness ==
    /\ lastOp.op = "snapshot"
    /\ view = "editor"
    /\ ~isEditMode
    /\ FindNote(notesData, currentNoteId) # << >>
    /\ edContent \in TypedTexts
    /\ FindNote(notesData, currentNoteId)[1].content # edContent
    /\ armed # {}
    /\ noteToDeleteId # NoNote
    /\ searchTerm # << >>

\* --------------------------------------------------------- cross-note writes
\* Writes: one identity signed in, snapshots, navigation, typing, the
\* autosave timer and note creation.
NextWrites ==
    \/ onAuthStateChanged("u1")
    \/ \E u \in Users : \E docs \in WrittenSnapshots(u) : SnapshotDelivered(u, docs)
    \/ \E id \in NoteIds : OpenNoteClicked(id)
    \/ BackToDashboard
    \/ TitleInput(<<"x">>)
    \/ ContentInput(<<"Y">>)
    \/ applyAIResult("append", <<"x">>)
    \/ \E h \in Handles : autosaveFired(h)
    \/ createNewNote
    \/ createNewNoteResolved

SpecWrites == Init /\ [][NextWrites]_vars

\* C28: every update call a timer issues targets the note whose fields the
\* inputs of the editor were loaded from and edited as, and carries the
\* title and content in those inputs when the timer fires.
C28_CallCarriesTargetsOwnFields ==
    [][ \A h \in Handles :
            Fires(h) /\ updateLog' # updateLog =>
                LET call == Last(pendingUpdates')
                IN  /\ call.handle = h
                    /\ call.id = currentNoteId
                    /\ call.id = edNote
                    /\ call.title = edTitle
                    /\ call.content = edContent ]_vars

\* A timer set before another open-note or dashboard event fired afterwards
\* and issued a call for the note now loaded in the editor.
C28_Witness ==
    /\ lastOp.op = "timer"
    /\ timerHist[lastOp.arg].state = "fired"
    /\ ~timerHist[lastOp.arg].steady
    /\ pendingUpdates # << >>
    /\ Last(pendingUpdates).handle = lastOp.arg
    /\ Last(pendingUpdates).id = edNote
    /\ Last(pendingUpdates).content = edContent
    /\ view = "editor"

====
